---- MODULE Spec2Model ----
(***************************************************************************)
(* A model of the SOS lead pipeline: the archive Unpacker                  *)
(* (scripts/extract_and_rename.py), the enrichment engine                  *)
(* (scripts/enrichment.py), the orchestrator (pipeline.py) and the file   *)
(* watcher (scripts/auto_trigger.py).                                      *)
(*                                                                         *)
(* Text is modelled character by character: a string is a sequence of     *)
(* one-character strings, so that strip, lower, replace, re.sub and the    *)
(* regular expression search are computed, not assumed.                    *)
(***************************************************************************)
EXTENDS Integers, Sequences, FiniteSets, TLC

VARIABLES
    \* ---- normalize_addr / residential_pattern applied to one address
    addr,          \* the address string under test
    norm_hist,     \* normalize_addr applied once, twice, ... to addr
    \* ---- _standardize_columns run as its loop over df.columns
    columns,       \* df.columns, the raw header
    new_cols,      \* new_cols built so far
    seen,          \* the seen dict: clean name -> counter
    \* ---- _apply_flags applied to one joined row
    sample,        \* [bus, agent, email]: the row's address and email cells
    flagged,       \* <<the enriched row>> once _apply_flags ran
    \* ---- the file system
    raw_zips,      \* raw_zips/: the names of the ZIPs waiting there
    raw,           \* raw/ (staging): CSV file name -> id of its data
    tmp,           \* raw/tmp_<stem>/: ZIP name -> the entries lying in its scratch directory
    archive,       \* archive/raw_zips/: the names of the ZIPs moved there
    log_file,      \* logs/extract_log_<date>.log: <<>> or <<its lines>>
    outputs,       \* outputs/: tier -> the rows of <tier>_leads_<date>.csv, for the files there
    out_dir,       \* whether outputs/ exists
    \* ---- pipeline.main and the run of extract_and_rename in progress
    pc,            \* where the process is
    args,          \* the flags given to main
    exit_status,   \* of the last process that ended
    todo,          \* the ZIPs of the glob not yet visited
    zip_file,      \* the ZIP of the current iteration
    csv_files,     \* the CSVs found in its scratch directory and not yet moved
    log_lines, skipped_zips, renamed_files,
    \* ---- history, for stating properties
    snapshot,      \* raw_zips/ as the run of extract_and_rename found it
    processed,     \* the ZIPs visited by that run, in order
    trace,         \* the stages main has run, in order
    last,          \* what the last enrich_and_export computed
    drops,         \* how many ZIPs were put into raw_zips/
    \* ---- auto_trigger: the observer and its CSVCreationHandler
    event_queue,   \* the created-events the observer has not dispatched yet
    handler,       \* where on_created is: "idle" or "sleep"
    elapsed,       \* time.time() - self._last_run in seconds, counted up to the debounce window
    \* ---- history, for stating properties
    created,       \* how many created-events there were
    unserved       \* the .csv created-events with no enrich_and_export() call since

vars == <<addr, norm_hist, columns, new_cols, seen, sample, flagged,
          raw_zips, raw, tmp, archive, log_file, outputs, out_dir,
          pc, args, exit_status, todo, zip_file, csv_files,
          log_lines, skipped_zips, renamed_files,
          snapshot, processed, trace, last, drops,
          event_queue, handler, elapsed, created, unserved>>

fsVars   == <<raw_zips, raw, tmp, archive, log_file, outputs, out_dir>>
runVars  == <<pc, args, exit_status, todo, zip_file, csv_files,
              log_lines, skipped_zips, renamed_files>>
histVars == <<snapshot, processed, trace, last, drops>>
pipeVars == <<fsVars, runVars, histVars>>
watchVars == <<event_queue, handler, elapsed, created, unserved>>

addrVars == <<addr, norm_hist>>
colVars  == <<columns, new_cols, seen>>
rowVars  == <<sample, flagged>>

(***************************************************************************)
(* Characters.  Ascii lists the characters the model uses, in code-point   *)
(* order; Python compares and sorts strings by code point.                 *)
(***************************************************************************)
Tab == "\t"

Ascii ==
    << Tab, " ", "#", ",", "-", ".",
       "0", "1", "2", "3", "4", "5", "6", "7", "8", "9",
       "@",
       "A", "B", "C", "D", "E", "F", "G", "H", "I", "J", "K", "L", "M",
       "N", "O", "P", "Q", "R", "S", "T", "U", "V", "W", "X", "Y", "Z",
       "_",
       "a", "b", "c", "d", "e", "f", "g", "h", "i", "j", "k", "l", "m",
       "n", "o", "p", "q", "r", "s", "t", "u", "v", "w", "x", "y", "z" >>

Rank(c) == CHOOSE i \in 1..Len(Ascii) : Ascii[i] = c

DigitChars == {"0", "1", "2", "3", "4", "5", "6", "7", "8", "9"}
UpperChars == {Ascii[i] : i \in Rank("A")..Rank("Z")}
LowerChars == {Ascii[i] : i \in Rank("a")..Rank("z")}

\* str.lower() on one character
LowerChar(c) ==
    IF c \in UpperChars THEN Ascii[Rank(c) - Rank("A") + Rank("a")] ELSE c

\* str.lower()
RECURSIVE Lower(_)
Lower(s) == IF s = <<>> THEN <<>> ELSE <<LowerChar(Head(s))>> \o Lower(Tail(s))

\* \s of the re module, and what str.strip() removes
IsSpace(c) == c \in {" ", Tab}

\* \w of the re module
IsWordChar(c) == c \in DigitChars \cup UpperChars \cup LowerChars \cup {"_"}

RECURSIVE LStrip(_)
LStrip(s) ==
    IF s # <<>> /\ IsSpace(Head(s)) THEN LStrip(Tail(s)) ELSE s

RECURSIVE RStrip(_)
RStrip(s) ==
    IF s # <<>> /\ IsSpace(s[Len(s)]) THEN RStrip(SubSeq(s, 1, Len(s) - 1)) ELSE s

\* str.strip()
Strip(s) == RStrip(LStrip(s))

\* str.replace(old, new) for a one-character old
RECURSIVE ReplaceChar(_, _, _)
ReplaceChar(s, old, new) ==
    IF s = <<>> THEN <<>>
    ELSE <<IF Head(s) = old THEN new ELSE Head(s)>> \o ReplaceChar(Tail(s), old, new)

\* s.startswith(p), s.endswith(p), p in s
StartsWith(s, p) == Len(p) <= Len(s) /\ SubSeq(s, 1, Len(p)) = p
EndsWith(s, p) == Len(p) <= Len(s) /\ SubSeq(s, Len(s) - Len(p) + 1, Len(s)) = p
Contains(s, p) == \E i \in 1..(Len(s) - Len(p) + 1) : SubSeq(s, i, i + Len(p) - 1) = p

\* str(n) for a natural number
RECURSIVE Digits(_)
Digits(n) ==
    IF n < 10 THEN <<Ascii[Rank("0") + n]>>
    ELSE Digits(n \div 10) \o <<Ascii[Rank("0") + (n % 10)]>>

RECURSIVE Flatten(_)
Flatten(ss) == IF ss = <<>> THEN <<>> ELSE Head(ss) \o Flatten(Tail(ss))

(***************************************************************************)
(* _apply_flags.normalize_addr                                             *)
(***************************************************************************)
\* the character class [\s,\.]
IsSep(c) == IsSpace(c) \/ c \in {",", "."}

RECURSIVE DropSeps(_)
DropSeps(s) == IF s # <<>> /\ IsSep(Head(s)) THEN DropSeps(Tail(s)) ELSE s

\* re.sub(r"[\s,\.]+", " ", s): every maximal run of separators becomes one space
RECURSIVE SubSeps(_)
SubSeps(s) ==
    IF s = <<>> THEN <<>>
    ELSE IF IsSep(Head(s)) THEN <<" ">> \o SubSeps(DropSeps(Tail(s)))
    ELSE <<Head(s)>> \o SubSeps(Tail(s))

\* a value that is not a str (NaN) or is empty gives ""
normalize_addr(a) ==
    IF a = <<"<NaN>">> \/ a = <<>> THEN <<>> ELSE SubSeps(Lower(Strip(a)))

(***************************************************************************)
(* residential_pattern = \b(apt|apartment|unit|suite|#|po box|p\.o\. box)\b *)
(* with re.IGNORECASE, used through .search()                              *)
(***************************************************************************)
ResidentialAlternatives ==
    { <<"a","p","t">>,
      <<"a","p","a","r","t","m","e","n","t">>,
      <<"u","n","i","t">>,
      <<"s","u","i","t","e">>,
      <<"#">>,
      <<"p","o"," ","b","o","x">>,
      <<"p",".","o","."," ","b","o","x">> }

\* the alternative alt matches the text at position i, ignoring case
MatchAt(s, i, alt) ==
    /\ i + Len(alt) - 1 <= Len(s)
    /\ \A j \in 1..Len(alt) : LowerChar(s[i + j - 1]) = alt[j]

IsWordAt(s, p) == p >= 1 /\ p <= Len(s) /\ IsWordChar(s[p])

\* \b between s[p-1] and s[p]: exactly one side is a word character
WordBoundary(s, p) == IsWordAt(s, p - 1) # IsWordAt(s, p)

residential_search(s) ==
    \E i \in 1..Len(s) : \E alt \in ResidentialAlternatives :
        /\ MatchAt(s, i, alt)
        /\ WordBoundary(s, i)
        /\ WordBoundary(s, i + Len(alt))

(***************************************************************************)
(* _apply_flags on one joined row.  A cell is a string or NaN (the cell of *)
(* an agent column in a row the left merge found no agent for).            *)
(***************************************************************************)
NaN == <<"<NaN>">>

\* Series.fillna("")
FillNa(cell) == IF cell = NaN THEN <<>> ELSE cell

\* " ".join(cells)
RECURSIVE JoinSpace(_)
JoinSpace(cells) ==
    IF cells = <<>> THEN <<>>
    ELSE IF Len(cells) = 1 THEN Head(cells)
    ELSE Head(cells) \o <<" ">> \o JoinSpace(Tail(cells))

RECURSIVE MapFillNa(_)
MapFillNa(cells) ==
    IF cells = <<>> THEN <<>> ELSE <<FillNa(Head(cells))>> \o MapFillNa(Tail(cells))

\* df[cols].fillna("").agg(" ".join, axis=1) for one row
FullAddress(cells) == JoinSpace(MapFillNa(cells))

consumer_domains ==
    { <<"g","m","a","i","l",".","c","o","m">>,
      <<"y","a","h","o","o",".","c","o","m">>,
      <<"h","o","t","m","a","i","l",".","c","o","m">>,
      <<"o","u","t","l","o","o","k",".","c","o","m">>,
      <<"a","o","l",".","c","o","m">> }

\* email.split("@")[-1]: the text after the last "@"
RECURSIVE AfterLastAt(_)
AfterLastAt(s) ==
    IF \E i \in 1..Len(s) : s[i] = "@"
    THEN AfterLastAt(SubSeq(s, (CHOOSE i \in 1..Len(s) : s[i] = "@") + 1, Len(s)))
    ELSE s

is_personal(email) ==
    /\ \E i \in 1..Len(email) : email[i] = "@"
    /\ \E d \in consumer_domains : EndsWith(Lower(AfterLastAt(email)), d)

\* all(flags), any(flags)
AllOf(flags) == \A i \in DOMAIN flags : flags[i]
AnyOf(flags) == \E i \in DOMAIN flags : flags[i]

\* a plausible slip: the email flag takes part in the tier
classify_with_email(differs, residential, personal) ==
    IF AllOf(<<differs, residential, personal>>) THEN "A"
    ELSE IF AnyOf(<<differs, residential, personal>>) THEN "B"
    ELSE "C"

\* _apply_flags.classify; the row carries has_personal_email, classify reads
\* only the two address flags
classify(differs, residential, personal) ==
    LET flags == <<differs, residential>>
    IN  IF AllOf(flags) THEN "A"
        ELSE IF AnyOf(flags) THEN "B"
        ELSE "C"

\* the derived columns of one row, from the cells of its business address
\* columns, agent address columns and email columns
ApplyFlagsRow(bus, agent, emails) ==
    LET bfa == FullAddress(bus)
        afa == FullAddress(agent)
        differs == normalize_addr(afa) # normalize_addr(bfa)
        residential == residential_search(bfa) \/ residential_search(afa)
        personal == \E i \in DOMAIN emails : is_personal(FillNa(emails[i]))
    IN  [ business_full_address |-> bfa,
          agent_full_address |-> afa,
          agent_differs_from_business_address |-> differs,
          likely_residential_address |-> residential,
          has_personal_email |-> personal,
          lead_tier |-> classify(differs, residential, personal) ]

(***************************************************************************)
(* _standardize_columns: the loop that builds new_cols                     *)
(***************************************************************************)
\* col.strip().lower().replace(" ", "_").replace("-", "_")
clean_name(col) == ReplaceChar(ReplaceChar(Lower(Strip(col)), " ", "_"), "-", "_")

EmptyDict == [k \in {} |-> 0]

\* one iteration of `for col in df.columns`, on the dict seen and the list out
StandardizeOne(col, sn, out) ==
    LET clean == clean_name(col)
    IN  IF clean \in DOMAIN sn
        THEN [ seen |-> [sn EXCEPT ![clean] = @ + 1],
               new_cols |-> Append(out, clean \o <<"_">> \o Digits(sn[clean] + 1)) ]
        ELSE [ seen |-> (clean :> 0) @@ sn,
               new_cols |-> Append(out, clean) ]

RECURSIVE StandardizeFrom(_, _, _)
StandardizeFrom(cols, sn, out) ==
    IF cols = <<>> THEN out
    ELSE LET r == StandardizeOne(Head(cols), sn, out)
         IN  StandardizeFrom(Tail(cols), r.seen, r.new_cols)

\* the new column names of _standardize_columns(df)
standardize_names(cols) == StandardizeFrom(cols, EmptyDict, <<>>)

(***************************************************************************)
(* CSV data.  A frame is [cols, rows]: the header and the rows, each row   *)
(* the cells in header order.  A staged file holds the id of its data.     *)
(***************************************************************************)
Timestamp == <<"2","0","2","4","-","0","1","-","0","1">>

EmptyFrame == [cols |-> <<>>, rows |-> <<>>]

CsvIds == {"F1", "F2", "G1", "G2", "X", "BAD"}

\* what pd.read_csv(f, dtype=str) returns for a readable file
CsvData(id) ==
    CASE id = "F1" ->
           [cols |-> <<<<"E","n","t","i","t","y"," ","N","u","m","b","e","r">>, <<"A","d","d","r","e","s","s">>>>,
            rows |-> << <<<<"1","0","0","1">>, <<"1","2"," ","M","a","i","n"," ","S","t"," ","A","p","t"," ","4">>>>, <<<<"1","0","0","2">>, <<"5","0","0"," ","O","a","k"," ","A","v","e">>>> >>]
      [] id = "F2" ->
           [cols |-> <<<<"I","D">>, <<"A","d","d","r","e","s","s">>>>,
            rows |-> << <<<<" ","1","0","0","2">>, <<"1","2"," ","M","a","i","n"," ","S","t"," ","#","4">>>> >>]
      [] id = "G1" ->
           [cols |-> <<<<"e","n","t","i","t","y","_","n","u","m","b","e","r">>, <<"a","d","d","r","e","s","s">>, <<"e","m","a","i","l">>>>,
            rows |-> << <<<<"1","0","0","2">>, <<"5","0","0"," ","O","a","k"," ","A","v","e">>, <<"j","a","n","e","@","g","m","a","i","l",".","c","o","m">>>>, <<<<"1","0","0","2">>, <<"5","0","0"," ","O","a","k"," ","A","v","e">>, <<"j","a","n","e","@","a","c","m","e","c","o","r","p",".","c","o","m">>>> >>]
      [] id = "G2" ->
           [cols |-> <<<<"E","n","t","i","t","y","-","N","u","m","b","e","r">>, <<"A","d","d","r","e","s","s">>>>,
            rows |-> << <<<<"1","0","0","1">>, <<"1","2"," ","M","a","i","n"," ","S","t"," ","A","p","t"," ","4">>>> >>]
      [] id = "X" ->
           [cols |-> <<<<"n","o","t","e">>>>, rows |-> << <<<<"x">>>> >>]

\* pd.read_csv raises for this file (not parseable)
Readable(id) == id # "BAD"

\* Python's < on strings
RECURSIVE LessStr(_, _)
LessStr(a, b) ==
    IF b = <<>> THEN FALSE
    ELSE IF a = <<>> THEN TRUE
    ELSE IF Head(a) = Head(b) THEN LessStr(Tail(a), Tail(b))
    ELSE Rank(Head(a)) < Rank(Head(b))

\* sorted(names)
RECURSIVE Sorted(_)
Sorted(names) ==
    IF names = {} THEN <<>>
    ELSE LET m == CHOOSE x \in names : \A y \in names \ {x} : LessStr(x, y)
         IN  <<m>> \o Sorted(names \ {m})

DotCsv == <<".", "c", "s", "v">>

\* RAW_DIR.glob(f"{prefix}_{date_str}*.csv") over the staged file names
GlobDated(names, prefix) ==
    LET pattern == prefix \o <<"_">> \o Timestamp
    IN  {n \in names : /\ StartsWith(n, pattern)
                       /\ EndsWith(n, DotCsv)
                       /\ Len(n) >= Len(pattern) + Len(DotCsv)}

IndexOf(s, x) == CHOOSE i \in 1..Len(s) : s[i] = x /\ \A j \in 1..(i - 1) : s[j] # x
InSeq(s, x) == \E i \in 1..Len(s) : s[i] = x

RECURSIVE UnionCols(_, _)
UnionCols(frames, acc) ==
    IF frames = <<>> THEN acc
    ELSE LET new == SelectSeq(Head(frames).cols, LAMBDA c : ~InSeq(acc, c))
         IN  UnionCols(Tail(frames), acc \o new)

\* the rows of one frame laid out under the columns cols, NaN where it has none
Reindex(frame, cols) ==
    [r \in 1..Len(frame.rows) |->
        [j \in 1..Len(cols) |->
            IF InSeq(frame.cols, cols[j])
            THEN frame.rows[r][IndexOf(frame.cols, cols[j])]
            ELSE NaN]]

RECURSIVE ConcatRows(_, _)
ConcatRows(frames, cols) ==
    IF frames = <<>> THEN <<>>
    ELSE Reindex(Head(frames), cols) \o ConcatRows(Tail(frames), cols)

\* pd.concat(frames, ignore_index=True)
Concat(frames) ==
    LET cols == UnionCols(frames, <<>>)
    IN  [cols |-> cols, rows |-> ConcatRows(frames, cols)]

StrNan == <<"n", "a", "n">>

\* df[c].astype(str).str.strip() on one cell
StripCell(cell) == Strip(IF cell = NaN THEN StrNan ELSE cell)

\* _standardize_columns(df).  df[c] is a Series, and so stripped, only when
\* the name c is unique among the new names.
standardize_columns(df) ==
    LET names == standardize_names(df.cols)
        unique(j) == \A k \in 1..Len(names) : names[k] = names[j] => k = j
    IN  [cols |-> names,
         rows |-> [r \in 1..Len(df.rows) |->
                     [j \in 1..Len(names) |->
                         IF unique(j) THEN StripCell(df.rows[r][j]) ELSE df.rows[r][j]]]]

\* DataFrame.empty
IsEmpty(df) == Len(df.cols) = 0 \/ Len(df.rows) = 0

\* lines 88-98: the files that can be read, concatenated and standardized
load_frames(files, readable) ==
    IF Len(readable) = 0 THEN EmptyFrame
    ELSE standardize_columns(
             Concat([i \in 1..Len(readable) |-> CsvData(files[readable[i]])]))

\* lines 84-94, on the sorted list of matching files
load_found(files, found) ==
    IF found = <<>> THEN EmptyFrame
    ELSE load_frames(files, SelectSeq(found, LAMBDA f : Readable(files[f])))

\* _load_latest_csvs(prefix, date_str) over the staged files (name -> data id)
load_latest_csvs(files, prefix) ==
    load_found(files, Sorted(GlobDated(DOMAIN files, prefix)))

(***************************************************************************)
(* enrich_and_export: key resolution, the left merge, the flags, export    *)
(***************************************************************************)
AgentPrefix == <<"a","g","e","n","t","_">>

\* agents_df.add_prefix("agent_")
add_prefix(df) ==
    [cols |-> [j \in 1..Len(df.cols) |-> AgentPrefix \o df.cols[j]], rows |-> df.rows]

possible_keys ==
    << <<<<"e","n","t","i","t","y","_","n","u","m","b","e","r">>, <<"a","g","e","n","t","_","e","n","t","i","t","y","_","n","u","m","b","e","r">>>>,
       <<<<"f","i","l","e","_","n","u","m","b","e","r">>, <<"a","g","e","n","t","_","f","i","l","e","_","n","u","m","b","e","r">>>>,
       <<<<"e","n","t","i","t","y","_","i","d">>, <<"a","g","e","n","t","_","e","n","t","i","t","y","_","i","d">>>> >>

\* the join key pair: the first candidate pair both frames have, else the
\* first column of each frame
join_keys(filings_df, agents_df) ==
    LET ok(i) == /\ InSeq(filings_df.cols, possible_keys[i][1])
                 /\ InSeq(agents_df.cols, possible_keys[i][2])
    IN  IF \E i \in 1..Len(possible_keys) : ok(i)
        THEN possible_keys[CHOOSE i \in 1..Len(possible_keys) :
                               ok(i) /\ \A k \in 1..(i - 1) : ~ok(k)]
        ELSE <<filings_df.cols[1], agents_df.cols[1]>>

\* the agent rows, in order, whose key cell equals that of filing row i
Matches(filings_df, agents_df, keys, i) ==
    LET fk == IndexOf(filings_df.cols, keys[1])
        ak == IndexOf(agents_df.cols, keys[2])
    IN  SelectSeq([j \in 1..Len(agents_df.rows) |-> j],
                  LAMBDA j : agents_df.rows[j][ak] = filings_df.rows[i][fk])

RECURSIVE InnerPairsFrom(_, _, _, _)
InnerPairsFrom(filings_df, agents_df, keys, i) ==
    IF i > Len(filings_df.rows) THEN <<>>
    ELSE LET m == Matches(filings_df, agents_df, keys, i)
         IN  [k \in 1..Len(m) |-> <<i, m[k]>>]
                 \o InnerPairsFrom(filings_df, agents_df, keys, i + 1)

\* a plausible slip: how="inner", which drops the filings without an agent
inner_merge_pairs(filings_df, agents_df, keys) ==
    InnerPairsFrom(filings_df, agents_df, keys, 1)

RECURSIVE LeftPairsFrom(_, _, _, _)
LeftPairsFrom(filings_df, agents_df, keys, i) ==
    IF i > Len(filings_df.rows) THEN <<>>
    ELSE LET m == Matches(filings_df, agents_df, keys, i)
         IN  (IF Len(m) = 0 THEN << <<i, 0>> >>
              ELSE [k \in 1..Len(m) |-> <<i, m[k]>>])
                 \o LeftPairsFrom(filings_df, agents_df, keys, i + 1)

\* filings_df.merge(agents_df, left_on, right_on, how="left"): the pairs
\* <<filing row, agent row>> of the result in order, agent row 0 for a filing
\* row without a match
merge_pairs(filings_df, agents_df, keys) ==
    LeftPairsFrom(filings_df, agents_df, keys, 1)

AgentSuffix == <<"_","a","g","e","n","t">>

\* the merged frame: the filing columns, then the agent columns (one that
\* repeats a filing column's name gets the suffix "_agent")
merged_frame(filings_df, agents_df, pairs) ==
    [cols |-> filings_df.cols \o
                [j \in 1..Len(agents_df.cols) |->
                    IF InSeq(filings_df.cols, agents_df.cols[j])
                    THEN agents_df.cols[j] \o AgentSuffix
                    ELSE agents_df.cols[j]],
     rows |-> [p \in 1..Len(pairs) |->
                filings_df.rows[pairs[p][1]] \o
                  (IF pairs[p][2] = 0
                   THEN [j \in 1..Len(agents_df.cols) |-> NaN]
                   ELSE agents_df.rows[pairs[p][2]])]]

StrAddress == <<"a","d","d","r","e","s","s">>
StrEmail == <<"e","m","a","i","l">>

\* the cells of row under the columns that satisfy pick, in column order
CellsWhere(df, row, pick(_)) ==
    LET idx == SelectSeq([j \in 1..Len(df.cols) |-> j], LAMBDA j : pick(df.cols[j]))
    IN  [k \in 1..Len(idx) |-> row[idx[k]]]

\* _apply_flags(joined): every row with its derived columns
apply_flags(joined) ==
    [r \in 1..Len(joined.rows) |->
        LET row == joined.rows[r]
            bus == CellsWhere(joined, row,
                     LAMBDA c : Contains(c, StrAddress) /\ ~StartsWith(c, AgentPrefix))
            agent == CellsWhere(joined, row,
                     LAMBDA c : StartsWith(c, AgentPrefix) /\ Contains(c, StrAddress))
            emails == CellsWhere(joined, row, LAMBDA c : Contains(c, StrEmail))
        IN  [cells |-> row] @@ ApplyFlagsRow(bus, agent, emails)]

Tiers == <<"A", "B", "C">>

TierRows(rows, tier) == SelectSeq(rows, LAMBDA r : r.lead_tier = tier)

\* the loop over the tiers: a non-empty tier's file is written, an empty
\* tier's file is not touched.  outs maps the tiers that have a file to its rows.
export_tiers(outs, rows) ==
    LET written == {Tiers[i] : i \in {k \in 1..Len(Tiers) : TierRows(rows, Tiers[k]) # <<>>}}
    IN  [tr \in DOMAIN outs \cup written |->
            IF tr \in written THEN TierRows(rows, tr) ELSE outs[tr]]

\* what a run that exported leaves: the output files, and what it computed
exported_run(filings_df, agents_df, keys, pairs, rows, outs) ==
    [outputs |-> export_tiers(outs, rows), out_dir |-> TRUE,
     last |-> [status |-> "exported", keys |-> keys, pairs |-> pairs, rows |-> rows]]

\* lines 188-208: the merge, the flags, mkdir, the export
enrich_merge(filings_df, agents_df, keys, pairs, outs) ==
    exported_run(filings_df, agents_df, keys, pairs,
                 apply_flags(merged_frame(filings_df, agents_df, pairs)), outs)

\* lines 171-194: the join keys, then the merge
enrich_keys(filings_df, agents_df, keys, outs) ==
    enrich_merge(filings_df, agents_df, keys,
                 merge_pairs(filings_df, agents_df, keys), outs)

\* lines 169-186, on the prefixed agents frame
enrich_join(filings_df, agents_df, outs) ==
    enrich_keys(filings_df, agents_df, join_keys(filings_df, agents_df), outs)

\* a plausible slip: OUTPUT_DIR.mkdir() placed before the emptiness check
skipped_run_mkdir_first(filings_df, agents_raw, outs, dir) ==
    [outputs |-> outs, out_dir |-> TRUE,
     last |-> [status |-> "skipped", keys |-> <<>>, pairs |-> <<>>, rows |-> <<>>]]

\* lines 165-167: the early return; nothing under outputs/ is touched
skipped_run(filings_df, agents_raw, outs, dir) ==
    [outputs |-> outs, out_dir |-> dir,
     last |-> [status |-> "skipped", keys |-> <<>>, pairs |-> <<>>, rows |-> <<>>]]

enrich_loaded(filings_df, agents_raw, outs, dir) ==
    IF IsEmpty(filings_df) \/ IsEmpty(agents_raw)
    THEN skipped_run(filings_df, agents_raw, outs, dir)
    ELSE enrich_join(filings_df, add_prefix(agents_raw), outs)

\* enrich_and_export() on the staged files, the output files and whether the
\* output directory exists: the new output state, and what the run computed
enrich_and_export(files, outs, dir) ==
    enrich_loaded(load_latest_csvs(files, <<"F","i","l","i","n","g","s">>),
                  load_latest_csvs(files, <<"A","g","e","n","t","s">>), outs, dir)

(***************************************************************************)
(* extract_and_rename.py: names                                            *)
(***************************************************************************)
\* FILENAME_MAP
FILENAME_MAP ==
    (<<"F","i","l","i","n","g","s",".","c","s","v">> :> (<<"F","i","l","i","n","g","s","_">> \o Timestamp \o DotCsv))
    @@ (<<"A","g","e","n","t","s",".","c","s","v">> :> (<<"A","g","e","n","t","s","_">> \o Timestamp \o DotCsv))
    @@ (<<"P","r","i","n","c","i","p","a","l","s",".","c","s","v">> :> (<<"P","r","i","n","c","i","p","a","l","s","_">> \o Timestamp \o DotCsv))

\* str.replace(old, "") for a longer old: left to right, without overlap
RECURSIVE RemoveAll(_, _)
RemoveAll(s, old) ==
    IF s = <<>> THEN <<>>
    ELSE IF StartsWith(s, old) THEN RemoveAll(SubSeq(s, Len(old) + 1, Len(s)), old)
    ELSE <<Head(s)>> \o RemoveAll(Tail(s), old)

slugify(name) ==
    ReplaceChar(RemoveAll(ReplaceChar(name, " ", "_"), DotCsv), "-", "_")

\* FILENAME_MAP.get(base_name) or f"{slugify(base_name)}_{timestamp}.csv"
new_name(base_name) ==
    IF base_name \in DOMAIN FILENAME_MAP THEN FILENAME_MAP[base_name]
    ELSE slugify(base_name) \o <<"_">> \o Timestamp \o DotCsv

\* name_parts = base_name.split("."); name_parts[0] += f"_{i}"; ".".join(name_parts)
SuffixName(base_name, i) ==
    LET dots == {k \in 1..Len(base_name) : base_name[k] = "."}
        cut == IF dots = {} THEN Len(base_name) + 1
               ELSE CHOOSE k \in dots : \A m \in dots : k <= m
    IN  SubSeq(base_name, 1, cut - 1) \o <<"_">> \o Digits(i)
            \o SubSeq(base_name, cut, Len(base_name))

\* a plausible slip (the older script's behaviour): move straight to the name
unsafe_target_path(existing, base_name) == base_name

\* safe_target_path(RAW_DIR, base_name), existing being the names in RAW_DIR
safe_target_path(existing, base_name) ==
    IF base_name \notin existing THEN base_name
    ELSE LET free == {i \in 1..(Cardinality(existing) + 1) :
                         SuffixName(base_name, i) \notin existing}
         IN  SuffixName(base_name, CHOOSE i \in free : \A k \in free : i <= k)

(***************************************************************************)
(* The ZIPs that may arrive.  A ZIP is named by what it holds: bad says    *)
(* that ZipFile/extractall raises BadZipFile, entries are the members      *)
(* extracted (for a bad ZIP: before the error), each with its base name.   *)
(***************************************************************************)
MaxDrops == 2

ZipNames == {"za", "zb", "zc", "zd", "ze"}

Zip(z) ==
    CASE z = "za" -> [bad |-> FALSE,
                      entries |-> << [name |-> <<"F","i","l","i","n","g","s",".","c","s","v">>, data |-> "F1"],
                                     [name |-> <<"A","g","e","n","t","s",".","c","s","v">>, data |-> "G1"] >>]
      [] z = "zb" -> [bad |-> FALSE,
                      entries |-> << [name |-> <<"A","g","e","n","t","s",".","c","s","v">>, data |-> "G2"],
                                     [name |-> <<"r","-","1",".","2",".","c","s","v">>, data |-> "X"] >>]
      [] z = "zc" -> [bad |-> TRUE,
                      entries |-> << [name |-> <<"A","g","e","n","t","s",".","c","s","v">>, data |-> "G1"] >>]
      [] z = "zd" -> [bad |-> FALSE,
                      entries |-> << [name |-> <<"r","e","a","d","m","e",".","t","x","t">>, data |-> "X"] >>]
      [] z = "ze" -> [bad |-> FALSE,
                      entries |-> << [name |-> <<"F","i","l","i","n","g","s",".","c","s","v">>, data |-> "F2"],
                                     [name |-> <<"F","i","l","i","n","g","s",".","c","s","v">>, data |-> "F2"],
                                     [name |-> <<"A","g","e","n","t","s",".","c","s","v">>, data |-> "BAD"] >>]

\* tmp_dir.rglob("*.csv") over the entries lying in the scratch directory of z
CsvEntries(z, lying) == {i \in lying : EndsWith(Zip(z).entries[i].name, DotCsv)}

(***************************************************************************)
(* pipeline.main: which stage follows which                                *)
(***************************************************************************)
ExtractOnly == "--extract-only"
EnrichOnly == "--enrich-only"
Flags == {ExtractOnly, EnrichOnly}

\* a plausible slip: the return after the extract-only branch is missing
next_stage_no_return(a, done) ==
    CASE done = "start" ->
           IF a = Flags THEN "usage_error"
           ELSE IF EnrichOnly \in a THEN "enrich"
           ELSE "extract"
      [] done = "extract" -> "enrich"
      [] done = "enrich" -> "exit"

\* main(argv): the stage that follows `done` ("start": argument parsing)
next_stage(a, done) ==
    CASE done = "start" ->
           IF ExtractOnly \in a /\ EnrichOnly \in a THEN "usage_error"
           ELSE IF ExtractOnly \in a THEN "extract"
           ELSE IF EnrichOnly \in a THEN "enrich"
           ELSE "extract"
      [] done = "extract" -> IF ExtractOnly \in a THEN "exit" ELSE "enrich"
      [] done = "enrich" -> "exit"

\* a plausible slip: the `continue` of the except branch is missing, so the
\* corrupt ZIP is archived like the others
corrupt_archived(z, zips, arch) == [raw_zips |-> zips \ {z}, archive |-> arch \cup {z}]

\* except zipfile.BadZipFile: ... continue -- the ZIP stays where it is
corrupt_skipped(z, zips, arch) == [raw_zips |-> zips, archive |-> arch]

(***************************************************************************)
(* The values of the variables a specification does not use                *)
(***************************************************************************)
AddrIdle == addr = <<>> /\ norm_hist = <<>>
ColIdle  == columns = <<>> /\ new_cols = <<>> /\ seen = EmptyDict
RowIdle  == sample = [bus |-> <<>>, agent |-> <<>>, email |-> <<>>] /\ flagged = <<>>

NoDict == [k \in {} |-> {}]

NoRun == [status |-> "none", keys |-> <<>>, pairs |-> <<>>, rows |-> <<>>]

PipeIdle ==
    /\ raw_zips = {} /\ raw = NoDict /\ tmp = NoDict /\ archive = {}
    /\ log_file = <<>> /\ outputs = NoDict /\ out_dir = FALSE
    /\ pc = "idle" /\ args = {} /\ exit_status = -1
    /\ todo = {} /\ zip_file = "none" /\ csv_files = {}
    /\ log_lines = <<>> /\ skipped_zips = <<>> /\ renamed_files = <<>>
    /\ snapshot = {} /\ processed = <<>> /\ trace = <<>> /\ last = NoRun
    /\ drops = 0

\* CSVCreationHandler(debounce_seconds = 3.0)
DebounceSeconds == 3

\* time.sleep(1.0) in on_created
SleepSeconds == 1

\* the handler as constructed: _last_run = 0.0, so that now - _last_run is the
\* time since the epoch, beyond any debounce window
WatchIdle ==
    /\ event_queue = <<>> /\ handler = "idle" /\ elapsed = DebounceSeconds
    /\ created = 0 /\ unserved = {}

(***************************************************************************)
(* Bounded inputs of the pure functions                                    *)
(***************************************************************************)
MaxPieces == 3
MaxApply == 2
MaxCols == 3
MaxRowPieces == 2

\* the sequences of at most n elements of S
SeqsUpTo(S, n) == UNION {[1..k -> S] : k \in 0..n}

AddrFragments == { <<" ">>, <<",">>, <<".">>, <<Tab>>, <<"S","t">>, <<"4">> }

AddrInputs == {Flatten(p) : p \in SeqsUpTo(AddrFragments, MaxPieces)}

ColNames == { <<"A">>, <<"a">>, <<"a","_","1">>, <<" ","a">>, <<"a","-","b">>, <<"a"," ","b">>, <<"a","_","b">> }

\* a header read by read_csv never repeats a name
ColInputs == {c \in SeqsUpTo(ColNames, MaxCols) :
                 \A i, j \in 1..Len(c) : i # j => c[i] # c[j]}

RowFragments == { <<"M","a","i","n">>, <<" ">>, <<"#">>, <<"4">>, <<"A","p","t">>, <<"P","O"," ","B","o","x">>, <<"P",".","O","."," ","B","o","x">>,
                  <<"s","u","i","t","e">>, <<"x">> }

BusAddrs == {Flatten(p) : p \in SeqsUpTo(RowFragments, MaxRowPieces)}
               \cup { <<"1","2"," ","M","a","i","n"," ","S","t"," ","#","4">>, <<"5","0","0"," ","O","a","k"," ","A","v","e">> }

AgentAddrs == { NaN, <<"5","0","0"," ","O","a","k"," ","A","v","e">>, <<"5","0","0"," ","o","a","k"," ","a","v","e",".">>, <<"1","2"," ","M","a","i","n"," ","S","t"," ","A","p","t"," ","4">> }

EmailCols == { <<>>, <<NaN>>, <<<<"j","a","n","e","@","g","m","a","i","l",".","c","o","m">>>>, <<<<"j","a","n","e","@","a","c","m","e","c","o","r","p",".","c","o","m">>>> }

(***************************************************************************)
(* normalize_addr applied repeatedly to one address                        *)
(***************************************************************************)
AddrInit ==
    /\ addr \in AddrInputs
    /\ norm_hist = <<>>
    /\ ColIdle /\ RowIdle /\ PipeIdle /\ WatchIdle

Normalize ==
    /\ Len(norm_hist) < MaxApply
    /\ norm_hist' = Append(norm_hist,
           normalize_addr(IF norm_hist = <<>> THEN addr ELSE norm_hist[Len(norm_hist)]))
    /\ UNCHANGED <<addr, colVars, rowVars, pipeVars, watchVars>>

AddrNext == Normalize

SpecAddr == AddrInit /\ [][AddrNext]_vars

(***************************************************************************)
(* _standardize_columns run over one header                                *)
(***************************************************************************)
ColInit ==
    /\ columns \in ColInputs
    /\ new_cols = <<>>
    /\ seen = EmptyDict
    /\ AddrIdle /\ RowIdle /\ PipeIdle /\ WatchIdle

StandardizeStep ==
    /\ Len(new_cols) < Len(columns)
    /\ LET r == StandardizeOne(columns[Len(new_cols) + 1], seen, new_cols)
       IN  /\ seen' = r.seen
           /\ new_cols' = r.new_cols
    /\ UNCHANGED <<columns, addrVars, rowVars, pipeVars, watchVars>>

ColNext == StandardizeStep

SpecCols == ColInit /\ [][ColNext]_vars

(***************************************************************************)
(* _apply_flags on one joined row                                          *)
(***************************************************************************)
RowInit ==
    /\ sample \in [bus : {<<b>> : b \in BusAddrs},
                   agent : {<<a>> : a \in AgentAddrs},
                   email : EmailCols]
    /\ flagged = <<>>
    /\ AddrIdle /\ ColIdle /\ PipeIdle /\ WatchIdle

ApplyFlags ==
    /\ flagged = <<>>
    /\ flagged' = <<ApplyFlagsRow(sample.bus, sample.agent, sample.email)>>
    /\ UNCHANGED <<sample, addrVars, colVars, pipeVars, watchVars>>

RowNext == ApplyFlags

SpecRow == RowInit /\ [][RowNext]_vars

(***************************************************************************)
(* The pipeline: ZIPs arrive, main runs                                    *)
(***************************************************************************)
Init == PipeIdle /\ AddrIdle /\ ColIdle /\ RowIdle /\ WatchIdle

pureVars == <<addrVars, colVars, rowVars>>

\* a ZIP is downloaded into raw_zips/ while no run is in progress
DropZip(z) ==
    /\ pc = "idle"
    /\ drops < MaxDrops
    /\ z \notin raw_zips
    /\ raw_zips' = raw_zips \cup {z}
    /\ drops' = drops + 1
    /\ UNCHANGED <<raw, tmp, archive, log_file, outputs, out_dir, runVars,
                   snapshot, processed, trace, last, pureVars, watchVars>>

\* the process ends: its memory (the locals of extract_and_rename, and with
\* them what the history recorded of that run) is gone
ProcessGone ==
    /\ todo' = {} /\ zip_file' = "none" /\ csv_files' = {}
    /\ log_lines' = <<>> /\ skipped_zips' = <<>> /\ renamed_files' = <<>>
    /\ snapshot' = {} /\ processed' = <<>>

\* python3 pipeline.py [flags]: argument parsing, up to the first stage
Main(a) ==
    /\ pc = "idle"
    /\ args' = a
    /\ trace' = <<>>
    /\ LET n == next_stage(a, "start")
       IN  IF n = "usage_error"
           THEN pc' = "idle" /\ exit_status' = 2      \* parser.error
           ELSE pc' = n /\ exit_status' = -1
    /\ UNCHANGED <<fsVars, todo, zip_file, csv_files, log_lines, skipped_zips,
                   renamed_files, snapshot, processed, last, drops, pureVars, watchVars>>

\* extract_and_rename() starts: the glob over raw_zips/
ExtractBegin ==
    /\ pc = "extract"
    /\ todo' = raw_zips
    /\ snapshot' = raw_zips
    /\ processed' = <<>>
    /\ log_lines' = <<>> /\ skipped_zips' = <<>> /\ renamed_files' = <<>>
    /\ zip_file' = "none" /\ csv_files' = {}
    /\ trace' = Append(trace, "extract_begin")
    /\ pc' = "loop"
    /\ UNCHANGED <<fsVars, args, exit_status, last, drops, pureVars, watchVars>>

\* one iteration of the loop, up to the end of the try block: the scratch
\* directory is made and the ZIP extracted into it; BadZipFile ends the iteration
OpenZip(z) ==
    /\ pc = "loop"
    /\ z \in todo
    /\ zip_file' = z
    /\ LET before == IF z \in DOMAIN tmp THEN tmp[z] ELSE {}
           lying == before \cup (1..Len(Zip(z).entries))
           found == CsvEntries(z, lying)
       IN  /\ tmp' = [k \in DOMAIN tmp \cup {z} |-> IF k = z THEN lying ELSE tmp[k]]
           /\ IF Zip(z).bad
              THEN /\ log_lines' = log_lines \o << <<"ZIP", z>>, <<"ERROR", z>> >>
                   /\ skipped_zips' = Append(skipped_zips, z)
                   /\ LET d == corrupt_skipped(z, raw_zips, archive)
                      IN  raw_zips' = d.raw_zips /\ archive' = d.archive
                   /\ todo' = todo \ {z}
                   /\ processed' = Append(processed, z)
                   /\ csv_files' = {}
                   /\ pc' = "loop"
              ELSE /\ csv_files' = found
                   /\ IF found = {}
                      THEN /\ log_lines' = log_lines \o << <<"ZIP", z>>, <<"WARN", z>> >>
                           /\ skipped_zips' = Append(skipped_zips, z)
                           /\ pc' = "archive"
                      ELSE /\ log_lines' = Append(log_lines, <<"ZIP", z>>)
                           /\ skipped_zips' = skipped_zips
                           /\ pc' = "move"
                   /\ UNCHANGED <<raw_zips, archive, todo, processed>>
    /\ UNCHANGED <<raw, log_file, outputs, out_dir, args, exit_status,
                   renamed_files, snapshot, trace, last, drops, pureVars, watchVars>>

\* one iteration of `for file in csv_files`: the CSV is moved into raw/
MoveCsv(i) ==
    /\ pc = "move"
    /\ i \in csv_files
    /\ LET e == Zip(zip_file).entries[i]
           target == safe_target_path(DOMAIN raw, new_name(e.name))
       IN  /\ raw' = [n \in DOMAIN raw \cup {target} |->
                        IF n = target THEN e.data ELSE raw[n]]
           /\ log_lines' = Append(log_lines, <<"RENAMED", e.name, target>>)
           /\ renamed_files' = Append(renamed_files, target)
    /\ tmp' = [tmp EXCEPT ![zip_file] = @ \ {i}]
    /\ csv_files' = csv_files \ {i}
    /\ pc' = IF csv_files \ {i} = {} THEN "archive" ELSE "move"
    /\ UNCHANGED <<raw_zips, archive, log_file, outputs, out_dir, args, exit_status,
                   todo, zip_file, skipped_zips, histVars, pureVars, watchVars>>

\* the end of the iteration: the ZIP goes to the archive, the scratch
\* directory is removed
ArchiveZip ==
    /\ pc = "archive"
    /\ archive' = archive \cup {zip_file}
    /\ raw_zips' = raw_zips \ {zip_file}
    /\ tmp' = [k \in DOMAIN tmp \ {zip_file} |-> tmp[k]]
    /\ todo' = todo \ {zip_file}
    /\ processed' = Append(processed, zip_file)
    /\ pc' = "loop"
    /\ UNCHANGED <<raw, log_file, outputs, out_dir, args, exit_status, zip_file,
                   csv_files, log_lines, skipped_zips, renamed_files,
                   snapshot, trace, last, drops, pureVars, watchVars>>

\* after the loop: the summary, and the log file is written
WriteLog ==
    /\ pc = "loop"
    /\ todo = {}
    /\ log_lines' = Append(log_lines,
                       <<"SUMMARY", Len(renamed_files), Len(skipped_zips), skipped_zips>>)
    /\ log_file' = <<log_lines'>>
    /\ trace' = Append(trace, "extract_end")
    /\ pc' = "extract_done"
    /\ UNCHANGED <<raw_zips, raw, tmp, archive, outputs, out_dir, args, exit_status,
                   todo, zip_file, csv_files, skipped_zips, renamed_files,
                   snapshot, processed, last, drops, pureVars, watchVars>>

\* extract_and_rename() has returned to main
AfterExtract ==
    /\ pc = "extract_done"
    /\ LET n == next_stage(args, "extract")
       IN  IF n = "exit"
           THEN pc' = "idle" /\ exit_status' = 0 /\ ProcessGone
           ELSE /\ pc' = n /\ exit_status' = exit_status
                /\ UNCHANGED <<todo, zip_file, csv_files, log_lines, skipped_zips,
                               renamed_files, snapshot, processed>>
    /\ UNCHANGED <<fsVars, args, trace, last, drops, pureVars, watchVars>>

\* enrich_and_export(), whole (the Principals load has no effect), and the
\* return to main
Enrich ==
    /\ pc = "enrich"
    /\ LET r == enrich_and_export(raw, outputs, out_dir)
       IN  /\ outputs' = r.outputs
           /\ out_dir' = r.out_dir
           /\ last' = r.last
    /\ trace' = Append(trace, "enrich")
    /\ pc' = "idle"
    /\ exit_status' = 0
    /\ ProcessGone
    /\ UNCHANGED <<raw_zips, raw, tmp, archive, log_file, args, drops, pureVars, watchVars>>

Next ==
    \/ \E z \in ZipNames : DropZip(z)
    \/ \E a \in SUBSET Flags : Main(a)
    \/ ExtractBegin
    \/ \E z \in ZipNames : OpenZip(z)
    \/ \E i \in 1..3 : MoveCsv(i)
    \/ ArchiveZip
    \/ WriteLog
    \/ AfterExtract
    \/ Enrich

Spec == Init /\ [][Next]_vars

(***************************************************************************)
(* The watcher: files appear in raw/, the observer dispatches the          *)
(* created-events one at a time to CSVCreationHandler.on_created           *)
(***************************************************************************)
MaxEvents == 3

\* what can appear in raw/: regular files (with the data they hold) and a
\* directory
Arrivals ==
    { [src_path |-> <<"F","i","l","i","n","g","s","_">> \o Timestamp \o DotCsv,
       is_directory |-> FALSE, data |-> "F1"],
      [src_path |-> <<"A","g","e","n","t","s","_">> \o Timestamp \o DotCsv,
       is_directory |-> FALSE, data |-> "G1"],
      [src_path |-> <<"A","g","e","n","t","s","_">> \o Timestamp \o <<"_","1",".","C","S","V">>,
       is_directory |-> FALSE, data |-> "G2"],
      [src_path |-> <<"n","o","t","e","s",".","t","x","t">>,
       is_directory |-> FALSE, data |-> "X"],
      [src_path |-> <<"t","m","p","_","z","a">>,
       is_directory |-> TRUE, data |-> "za"] }

WatchInit == WatchIdle /\ PipeIdle /\ AddrIdle /\ ColIdle /\ RowIdle

\* line 44: the events on_created ignores
ignored(event) ==
    event.is_directory \/ ~EndsWith(Lower(event.src_path), DotCsv)

\* line 47: the debounce test
debounced(since_last_run) == since_last_run < DebounceSeconds

\* a file or a directory appears in raw/; the observer queues a created-event
Created(a) ==
    /\ created < MaxEvents
    /\ IF a.is_directory
       THEN /\ a.data \notin DOMAIN tmp
            /\ tmp' = [k \in DOMAIN tmp \cup {a.data} |->
                          IF k = a.data THEN {} ELSE tmp[k]]
            /\ raw' = raw
       ELSE /\ a.src_path \notin DOMAIN raw
            /\ raw' = [n \in DOMAIN raw \cup {a.src_path} |->
                          IF n = a.src_path THEN a.data ELSE raw[n]]
            /\ tmp' = tmp
    /\ created' = created + 1
    /\ event_queue' = Append(event_queue,
                          [id |-> created + 1, src_path |-> a.src_path,
                           is_directory |-> a.is_directory])
    /\ unserved' = IF ~a.is_directory /\ EndsWith(a.src_path, DotCsv)
                   THEN unserved \cup {created + 1}
                   ELSE unserved
    /\ UNCHANGED <<raw_zips, archive, log_file, outputs, out_dir, runVars,
                   snapshot, processed, trace, last, drops,
                   handler, elapsed, pureVars>>

\* a second passes
Tick ==
    /\ elapsed < DebounceSeconds
    /\ elapsed' = elapsed + 1
    /\ UNCHANGED <<pipeVars, pureVars, event_queue, handler, created, unserved>>

\* on_created(event), lines 44-50: the event is ignored, or dropped by the
\* debounce test, or _last_run is set to now and the handler goes to sleep
on_created ==
    /\ handler = "idle"
    /\ event_queue # <<>>
    /\ event_queue' = Tail(event_queue)
    /\ IF ignored(Head(event_queue)) \/ debounced(elapsed)
       THEN handler' = "idle" /\ elapsed' = elapsed
       ELSE handler' = "sleep" /\ elapsed' = 0
    /\ UNCHANGED <<pipeVars, pureVars, created, unserved>>

\* on_created, lines 51-55: the sleep is over, enrich_and_export() is called
\* and the handler returns
on_created_enrich ==
    /\ handler = "sleep"
    /\ elapsed >= SleepSeconds
    /\ LET r == enrich_and_export(raw, outputs, out_dir)
       IN  /\ outputs' = r.outputs
           /\ out_dir' = r.out_dir
           /\ last' = r.last
    /\ unserved' = {}
    /\ handler' = "idle"
    /\ UNCHANGED <<raw_zips, raw, tmp, archive, log_file, runVars,
                   snapshot, processed, trace, drops,
                   event_queue, elapsed, created, pureVars>>

WatchNext ==
    \/ \E a \in Arrivals : Created(a)
    \/ Tick
    \/ on_created
    \/ on_created_enrich

\* on_created_enrich as the handler sees it: the steps of WatchNext that
\* satisfy this formula are exactly the on_created_enrich steps
on_created_returns ==
    /\ handler = "sleep"
    /\ elapsed >= SleepSeconds
    /\ handler' = "idle"

\* the observer thread keeps dispatching, a handler that was called runs to
\* its return, and time keeps passing
SpecWatch ==
    /\ WatchInit /\ [][WatchNext]_vars
    /\ WF_vars(Tick) /\ WF_vars(on_created) /\ WF_handler(on_created_returns)

(***************************************************************************)
(* Claims                                                                  *)
(***************************************************************************)
TierTable(differs, residential) ==
    IF differs /\ residential THEN "A"
    ELSE IF differs # residential THEN "B"
    ELSE "C"

\* C1: the tier of every row is A when both address flags are true, B when
\* exactly one is, C when neither is; has_personal_email plays no part.
Thm_C1_TierOfAddressFlags ==
    flagged # <<>> =>
        flagged[1].lead_tier =
            TierTable(flagged[1].agent_differs_from_business_address,
                      flagged[1].likely_residential_address)

\* a row whose email flag is true and whose address flags are both false: tier C
Wit_C1_PersonalEmailTierC ==
    /\ flagged # <<>>
    /\ flagged[1].has_personal_email
    /\ ~flagged[1].agent_differs_from_business_address
    /\ ~flagged[1].likely_residential_address
    /\ flagged[1].lead_tier = "C"

Distinct(s) == \A i, j \in 1..Len(s) : i # j => s[i] # s[j]

\* C3: column standardization produces pairwise-distinct column names for
\* every header.
CE_C3_StandardizedNamesDistinct ==
    Len(new_cols) = Len(columns) => Distinct(new_cols)

\* C4: normalize_addr is idempotent: applied to its own result it returns it.
CE_C4_NormalizeIdempotent ==
    Len(norm_hist) >= 2 => norm_hist[2] = norm_hist[1]

\* The claim's reading of "occurs as a whole word/token": a word alternative
\* stands between non-word characters (or the ends of the string); "#" stands at
\* the start of the string or after white space.
WholeTokenAt(s, i, alt) ==
    IF alt = <<"#">>
    THEN i = 1 \/ IsSpace(s[i - 1])
    ELSE ~IsWordAt(s, i - 1) /\ ~IsWordAt(s, i + Len(alt))

TokenOccurs(s) ==
    \E i \in 1..Len(s) : \E alt \in ResidentialAlternatives :
        MatchAt(s, i, alt) /\ WholeTokenAt(s, i, alt)

\* C9: likely_residential_address is true iff one of the tokens occurs as a
\* whole word/token in the business or the agent full address; an address with
\* "#" as its own token or starting a token after a space is flagged.
CE_C9_ResidentialIffTokenOccurs ==
    flagged # <<>> =>
        ( flagged[1].likely_residential_address
            <=> ( TokenOccurs(flagged[1].business_full_address)
                  \/ TokenOccurs(flagged[1].agent_full_address) ) )

\* ---- the join ------------------------------------------------------------
EnrichJustRan == trace # <<>> /\ trace[Len(trace)] = "enrich"

\* the frames the run that just ended joined (raw/ has not changed since)
FilingsOfRun == load_latest_csvs(raw, <<"F","i","l","i","n","g","s">>)
AgentsOfRun == add_prefix(load_latest_csvs(raw, <<"A","g","e","n","t","s">>))

\* the number of rows of the agents frame a whose key cell equals that of row i
\* of the filings frame f
MatchCount(f, a, i) ==
    LET fk == IndexOf(f.cols, last.keys[1])
        ak == IndexOf(a.cols, last.keys[2])
    IN  Cardinality({j \in 1..Len(a.rows) : a.rows[j][ak] = f.rows[i][fk]})

\* the joined rows produced for filing row i
RowsOf(i) == {p \in 1..Len(last.pairs) : last.pairs[p][1] = i}

\* the agent cells of joined row p
AgentCells(f, a, p) ==
    SubSeq(last.rows[p].cells, Len(f.cols) + 1, Len(f.cols) + Len(a.cols))

LeftOuterMerge(f, a) ==
    /\ Len(last.rows) = Len(last.pairs)
    /\ \A i \in 1..Len(f.rows) :
          LET n == MatchCount(f, a, i)
          IN  /\ Cardinality(RowsOf(i)) = (IF n = 0 THEN 1 ELSE n)
              /\ n = 0 => \A p \in RowsOf(i) :
                             \A k \in 1..Len(a.cols) : AgentCells(f, a, p)[k] = NaN

\* C2: the join is a left outer merge on the resolved keys: every filing row
\* yields max(1, number of agent rows with its key) joined rows, and the one
\* row of a filing without a match has null agent fields.
Thm_C2_LeftOuterMerge ==
    (EnrichJustRan /\ last.status = "exported") =>
        LeftOuterMerge(FilingsOfRun, AgentsOfRun)

ZeroAndTwoMatches(f, a) ==
    /\ \E i \in 1..Len(f.rows) :
          MatchCount(f, a, i) = 0 /\ Cardinality(RowsOf(i)) = 1
    /\ \E i \in 1..Len(f.rows) :
          MatchCount(f, a, i) = 2 /\ Cardinality(RowsOf(i)) = 2

\* a run whose filings include one without an agent and one with two agents
Wit_C2_ZeroAndTwoMatches ==
    /\ EnrichJustRan /\ last.status = "exported"
    /\ ZeroAndTwoMatches(FilingsOfRun, AgentsOfRun)

\* ---- the Unpacker --------------------------------------------------------
\* target is name, or name with the smallest suffix _k not in use
CanonicalOrSmallestSuffix(target, name, existing) ==
    \/ target = name /\ name \notin existing
    \/ /\ name \in existing
       /\ \E k \in 1..(Cardinality(existing) + 1) :
             /\ target = SuffixName(name, k)
             /\ target \notin existing
             /\ \A m \in 1..(k - 1) : SuffixName(name, m) \in existing

\* C5: no step replaces or removes a staged file, and every move of a CSV adds
\* exactly one file, under the canonical/slug name or that name with the
\* smallest unused suffix.
Thm_C5_NeverOverwrites ==
    [][ /\ \A n \in DOMAIN raw : n \in DOMAIN raw' /\ raw'[n] = raw[n]
        /\ pc = "move" =>
             \E i \in csv_files \ csv_files' :
                /\ Cardinality(DOMAIN raw' \ DOMAIN raw) = 1
                /\ \A target \in DOMAIN raw' \ DOMAIN raw :
                      /\ raw'[target] = Zip(zip_file).entries[i].data
                      /\ CanonicalOrSmallestSuffix(
                             target, new_name(Zip(zip_file).entries[i].name), DOMAIN raw)
      ]_vars

FilingsDated == <<"F","i","l","i","n","g","s","_">> \o Timestamp \o DotCsv

\* three CSVs named Filings.csv (two of them in one archive) are all staged
Wit_C5_ThreeFilingsStaged ==
    {FilingsDated, SuffixName(FilingsDated, 1), SuffixName(FilingsDated, 2)}
        \subseteq DOMAIN raw

RECURSIVE SumCsv(_)
SumCsv(zs) ==
    IF zs = {} THEN 0
    ELSE LET z == CHOOSE x \in zs : TRUE
         IN  Cardinality(CsvEntries(z, 1..Len(Zip(z).entries))) + SumCsv(zs \ {z})

CE_C7_TierFileIffNonEmpty ==
    (EnrichJustRan /\ last.status = "exported") =>
        \A i \in 1..Len(Tiers) :
            /\ Tiers[i] \in DOMAIN outputs <=> TierRows(last.rows, Tiers[i]) # <<>>
            /\ Tiers[i] \in DOMAIN outputs =>
                  outputs[Tiers[i]] = TierRows(last.rows, Tiers[i])

\* no staged file of the dataset can be read (none matches, or all fail)
NoneReadable(prefix) ==
    \A n \in DOMAIN raw :
        (StartsWith(n, prefix \o <<"_">> \o Timestamp) /\ EndsWith(n, DotCsv))
            => ~Readable(raw[n])

\* C8: when no Filings file or no Agents file of the run date can be read,
\* enrich_and_export returns normally and leaves outputs/ as it was: no file
\* created, changed or removed, the directory not created.
Thm_C8_MissingDataNoOp ==
    [][ (pc = "enrich" /\ (NoneReadable(<<"F","i","l","i","n","g","s">>) \/ NoneReadable(<<"A","g","e","n","t","s">>)))
          => /\ outputs' = outputs
             /\ out_dir' = out_dir
             /\ last'.status = "skipped"
             /\ pc' = "idle" /\ exit_status' = 0
      ]_vars

\* a run skipped because the only Agents file could not be read, while a
\* Filings file was there; outputs/ still does not exist
Wit_C8_SkippedUnreadableAgents ==
    /\ EnrichJustRan
    /\ last.status = "skipped"
    /\ ~out_dir
    /\ ~NoneReadable(<<"F","i","l","i","n","g","s">>)
    /\ \E n \in DOMAIN raw : StartsWith(n, <<"A","g","e","n","t","s">> \o <<"_">> \o Timestamp)
    /\ NoneReadable(<<"A","g","e","n","t","s">>)

\* ---- the orchestrator ----------------------------------------------------
\* C10: enrichment starts only after extract_and_rename has completed (every
\* ZIP visited, the log file written); without a flag the stages run in the
\* order Unpacker, enrichment; --extract-only never enriches; --enrich-only
\* never unpacks; both flags run nothing and exit with a non-zero status.
Thm_C10_StageSequencing ==
    /\ (pc = "enrich" /\ EnrichOnly \notin args) =>
          /\ trace = <<"extract_begin", "extract_end">>
          /\ todo = {}
          /\ \A z \in snapshot : InSeq(processed, z)
          /\ log_file = <<log_lines>>
    /\ (InSeq(trace, "enrich") /\ EnrichOnly \notin args) =>
          trace = <<"extract_begin", "extract_end", "enrich">>
    /\ ExtractOnly \in args => ~InSeq(trace, "enrich")
    /\ EnrichOnly \in args =>
          ~InSeq(trace, "extract_begin") /\ ~InSeq(trace, "extract_end")
    /\ args = Flags => trace = <<>> /\ pc = "idle" /\ exit_status = 2
    /\ (pc = "idle" /\ exit_status = 0) =>
          trace = ( IF args = {} THEN <<"extract_begin", "extract_end", "enrich">>
                    ELSE IF args = {ExtractOnly} THEN <<"extract_begin", "extract_end">>
                    ELSE <<"enrich">> )

\* a default run that unpacked a ZIP and then enriched
Wit_C10_DefaultRunBothStages ==
    /\ args = {}
    /\ pc = "idle" /\ exit_status = 0
    /\ trace = <<"extract_begin", "extract_end", "enrich">>
    /\ archive # {}
    /\ log_file # <<>>

\* ---- the scratch directories ----------------------------------------------
\* C11: when extract_and_rename has completed, raw/ holds no scratch directory
\* tmp_<stem> of a ZIP the run visited, whether the ZIP yielded CSVs, held no
\* CSV, or was corrupt.
CE_C11_NoScratchAfterRun ==
    pc = "extract_done" =>
        \A i \in 1..Len(processed) : processed[i] \notin DOMAIN tmp

\* ---- the watcher ----------------------------------------------------------
\* C12: every .csv created-event in raw/ is eventually followed by a call of
\* enrich_and_export() made after the event, also when the event falls into
\* the debounce window of an earlier trigger.
CE_C12_EveryCsvEventServed ==
    \A id \in 1..MaxEvents : (id \in unserved) ~> (id \notin unserved)

====
